---- MODULE Spec2Model ----
(***************************************************************************)
(* A model of get_python_api.py, the helper that detects the local ZED SDK, *)
(* downloads the matching pyzed wheel, validates it and installs it with   *)
(* pip.  The helper functions are operators; the module-level script is a  *)
(* state machine over its program position pc.  The environment (files on   *)
(* disk, the network, pip's exit status) is drawn from small sets.          *)
(***************************************************************************)
EXTENDS Integers, Sequences, FiniteSets, TLC

VARIABLES
    pc,             \* position in the module-level script
    env,            \* what the run is started with: argv, architecture, platform
    dirname,        \* line 168/172: where the wheel is written ("arg" or "home")
    whl,            \* the file at whl_file on disk
    gets,           \* the URLs requests.get was called on so far, in order
    fswrites,       \* files written so far, in order
    pips,           \* pip_install calls so far, in order, with their result
    printed,        \* the messages printed so far
    loc,            \* the script's variables (err, err_numpy, pyzed_dir, ...)
    ZED_SDK_MAJOR,  \* line 14
    ZED_SDK_MINOR,  \* line 15
    status,         \* the exit status of the process, -1 while it runs
    exc,            \* the exception that ended the run uncaught, "" if none
    call            \* a helper called on its own: its input and its result

vars == <<pc, env, dirname, whl, gets, fswrites, pips, printed, loc,
          ZED_SDK_MAJOR, ZED_SDK_MINOR, status, exc, call>>

scriptVars == <<pc, env, dirname, whl, gets, fswrites, pips, printed, loc,
                ZED_SDK_MAJOR, ZED_SDK_MINOR, status, exc>>

Min(S) == CHOOSE x \in S : \A y \in S : x <= y

(***************************************************************************)
(* check_valid_file (lines 49-76)                                          *)
(***************************************************************************)

\* More bytes than 4 that a small file may hold.
MaxSmall == 5
\* How many sizes above the threshold are tried.
MaxOver == 1

\* b'PK\x03\x04' (line 71), as byte values.
ZipMagic == <<80, 75, 3, 4>>

\* The bytes a header is made of: 'P', 'K', 3, 4 and '<' (an HTML page).
Bytes == {80, 75, 3, 4, 60}

\* Line 76: the threshold, in the unit of file_size.
SizeThreshold == 150
\* Line 63: st_size / 1000.
SizeDivisor == 1000

\* What os.stat(file_path) does: "ok", or the OSError it raises.
StatOutcomes == {"ok", "ENOENT", "ENOTDIR", "EACCES"}

FileSizes ==
    (0 .. MaxSmall) \cup
    {SizeThreshold * SizeDivisor - 1, SizeThreshold * SizeDivisor} \cup
    {SizeThreshold * SizeDivisor + k : k \in 1 .. MaxOver}

\* A path on disk: what os.stat does on it, its size in bytes, its first
\* bytes (at most 4, fewer when the file is shorter) and whether open(path,
\* 'rb') and read succeed on it.
NoFile(e) == [stat |-> e, size |-> 0, head |-> <<>>, readable |-> FALSE]

HeadLen(size) == IF size < 4 THEN size ELSE 4

Files ==
    {[stat |-> "ok", size |-> s, head |-> h, readable |-> r] :
        s \in FileSizes, h \in UNION {[1 .. n -> Bytes] : n \in 0 .. 4},
        r \in BOOLEAN}

Paths ==
    {f \in Files : Len(f.head) = HeadLen(f.size)} \cup
    {NoFile(e) : e \in StatOutcomes \ {"ok"}}

\* Line 76: file_size > 150, where file_size = st_size / 1000. is a float.
\* For an integer st_size the quotient exceeds 150 exactly when st_size
\* exceeds 150 * 1000, so the comparison is made on the bytes.
SizeOkAtLeast(file_size_bytes) == file_size_bytes >= SizeThreshold * SizeDivisor

SizeOk(file_size_bytes) == file_size_bytes > SizeThreshold * SizeDivisor

\* Lines 62-65: os.stat; only FileNotFoundError is caught (file_size = 0),
\* any other OSError leaves the function.
StatSize(f) ==
    CASE f.stat = "ok" -> [exc |-> "", size |-> f.size]
      [] f.stat = "ENOENT" -> [exc |-> "", size |-> 0]
      [] f.stat = "ENOTDIR" -> [exc |-> "NotADirectoryError", size |-> 0]
      [] OTHER -> [exc |-> "PermissionError", size |-> 0]

\* Lines 68-73: open, read(4), compare; every Exception gives is_zip = False.
IsZip(f) ==
    IF f.stat = "ok" /\ f.readable THEN f.head = ZipMagic ELSE FALSE

\* The result of a call: the exception leaving it ("" if none), else ret.
check_valid_file(f) ==
    LET st == StatSize(f) IN
    IF st.exc # "" THEN [exc |-> st.exc, ret |-> FALSE]
    ELSE [exc |-> "", ret |-> SizeOk(st.size) /\ IsZip(f)]

(***************************************************************************)
(* can_write_to_dir (lines 144-155)                                        *)
(***************************************************************************)

\* A directory argument: the three tests of line 145, what the probe's
\* open, write and remove do, and whether temp_test_file.tmp was there.
Dirs ==
    {d \in [exists : BOOLEAN, isdir : BOOLEAN, access_w : BOOLEAN,
            open_ok : BOOLEAN, write_ok : BOOLEAN, remove_ok : BOOLEAN,
            probe_pre : BOOLEAN] :
        /\ d.isdir => d.exists
        /\ d.access_w => d.exists
        /\ d.probe_pre => d.isdir}

\* Line 145.
DirGuard(d) == d.exists /\ d.isdir /\ d.access_w

\* Lines 148-155: ret, whether the probe file is on disk afterwards, and
\* whether the probe file was written (created or truncated).
ProbeIgnoreRemove(d) ==
    CASE ~d.open_ok -> [ret |-> FALSE, probe |-> d.probe_pre, wrote |-> FALSE]
      [] ~d.write_ok -> [ret |-> FALSE, probe |-> TRUE, wrote |-> TRUE]
      [] ~d.remove_ok -> [ret |-> TRUE, probe |-> TRUE, wrote |-> TRUE]
      [] OTHER -> [ret |-> TRUE, probe |-> FALSE, wrote |-> TRUE]

Probe(d) ==
    CASE ~d.open_ok -> [ret |-> FALSE, probe |-> d.probe_pre, wrote |-> FALSE]
      [] ~d.write_ok -> [ret |-> FALSE, probe |-> TRUE, wrote |-> TRUE]
      [] ~d.remove_ok -> [ret |-> FALSE, probe |-> TRUE, wrote |-> TRUE]
      [] OTHER -> [ret |-> TRUE, probe |-> FALSE, wrote |-> TRUE]

can_write_to_dir(d) ==
    IF ~DirGuard(d)
    THEN [ret |-> FALSE, probe |-> d.probe_pre, wrote |-> FALSE]
    ELSE Probe(d)

(***************************************************************************)
(* check_zed_sdk_version (lines 122-142)                                   *)
(***************************************************************************)

\* Text is a sequence of tokens: "MAJ" is the literal ZED_SDK_MAJOR_VERSION,
\* "MIN" the literal ZED_SDK_MINOR_VERSION, "SP" a space, "NL" a newline and
\* "D" any other character.

\* Lines of a header file tried in the model.
MaxLines == 2

HeaderLines ==
    {<<"D">>,
     <<"MAJ">>, <<"MAJ", "SP">>, <<"MAJ", "SP", "D">>,
     <<"MIN", "SP">>, <<"MIN", "SP", "D">>,
     <<"MAJ", "SP", "MIN", "SP", "D">>}

RECURSIVE JoinLines(_)
JoinLines(ls) ==
    IF Len(ls) = 0 THEN <<>>
    ELSE IF Len(ls) = 1 THEN ls[1]
    ELSE ls[1] \o <<"NL">> \o JoinLines(Tail(ls))

\* A header file: whether open() succeeds on it, and the text read() gives.
MissingHeader == [ok |-> FALSE, data |-> <<>>]

Headers ==
    {[ok |-> TRUE, data |-> JoinLines(ls)] :
        ls \in UNION {[1 .. n -> HeaderLines] : n \in 0 .. MaxLines}}
    \cup {MissingHeader}

\* re.compile(marker + " (.*)").search(data): the leftmost place where the
\* marker is followed by a space; group(1) runs to the end of that line
\* ("." matches anything but a newline) and may be empty.
ReSearch(data, marker) ==
    LET hits == {i \in 1 .. Len(data) - 1 :
                    data[i] = marker /\ data[i + 1] = "SP"}
    IN  IF hits = {} THEN [found |-> FALSE, group |-> <<>>]
        ELSE LET i == Min(hits)
                 nls == {j \in i + 2 .. Len(data) : data[j] = "NL"}
                 e == IF nls = {} THEN Len(data) + 1 ELSE Min(nls)
             IN  [found |-> TRUE, group |-> SubSeq(data, i + 2, e - 1)]

\* Lines 122-133.  major0 and minor0 are the globals before the call; the
\* major is assigned before the minor is searched.
check_zed_sdk_version_private(h, major0, minor0) ==
    IF ~h.ok
    THEN [exc |-> "FileNotFoundError", major |-> major0, minor |-> minor0]
    ELSE LET ma == ReSearch(h.data, "MAJ")
             mi == ReSearch(h.data, "MIN")
         IN  CASE ~ma.found ->
                    [exc |-> "AttributeError", major |-> major0, minor |-> minor0]
               [] ma.found /\ ~mi.found ->
                    [exc |-> "AttributeError", major |-> ma.group, minor |-> minor0]
               [] OTHER ->
                    [exc |-> "", major |-> ma.group, minor |-> mi.group]

\* Line 140: which exception of the first call leads to the second file.
RetryOnAnyError(e) == e # ""

RetryOn(e) == e = "AttributeError"

\* Lines 136-142.  tried is the sequence of files opened.
check_zed_sdk_version(h1, h2, major0, minor0) ==
    LET r1 == check_zed_sdk_version_private(h1, major0, minor0) IN
    IF RetryOn(r1.exc)
    THEN LET r2 == check_zed_sdk_version_private(h2, r1.major, r1.minor)
         IN  [exc |-> r2.exc, major |-> r2.major, minor |-> r2.minor,
              tried |-> <<"sl/Camera.hpp", "sl_zed/defines.hpp">>]
    ELSE [exc |-> r1.exc, major |-> r1.major, minor |-> r1.minor,
          tried |-> <<"sl/Camera.hpp">>]

(***************************************************************************)
(* pip_install (lines 27-46)                                               *)
(***************************************************************************)

\* Lines 43-46: subprocess.check_call returns 0 or raises (a nonzero exit of
\* pip, or pip not starting); every Exception gives err = 1.
pip_install(check_call_ok) == IF check_call_ok THEN 0 ELSE 1

\* One call as it is recorded in pips: the package, the flags of lines
\* 34-41 and what the call returned.
PipCall(package, force_install, upgrade, bsp, err) ==
    [package |-> package, force_install |-> force_install,
     ignore_install |-> FALSE, upgrade |-> upgrade,
     break_system_packages |-> bsp, err |-> err]

(***************************************************************************)
(* The exceptions of the download (lines 220-228)                          *)
(***************************************************************************)

\* The base class of each exception class that a download can raise
\* (requests.exceptions and the builtins), "" above Exception.
BaseOf(c) ==
    CASE c = "SSLError" -> "ConnectionError"
      [] c = "ConnectionError" -> "RequestException"
      [] c = "Timeout" -> "RequestException"
      [] c = "HTTPError" -> "RequestException"
      [] c = "RequestException" -> "OSError"
      [] c = "PermissionError" -> "OSError"
      [] c = "FileNotFoundError" -> "OSError"
      [] c = "OSError" -> "Exception"
      [] OTHER -> ""

RECURSIVE IsInstance(_, _)
IsInstance(c, base) ==
    IF c = "" THEN FALSE
    ELSE IF c = base THEN TRUE
    ELSE IsInstance(BaseOf(c), base)

\* The exception classes that the module requests.exceptions defines.  It
\* defines no URLError (that name is urllib.error's), so evaluating
\* requests.exceptions.URLError on line 228 raises AttributeError.
RequestsExceptions ==
    {"RequestException", "HTTPError", "ConnectionError", "SSLError", "Timeout"}

\* What requests.get(whl_file_URL) can raise.
GetExceptions == {"HTTPError", "SSLError", "ConnectionError", "Timeout"}

\* What open(whl_file, 'wb').write(r.content) can raise.
WriteExceptions == {"PermissionError", "FileNotFoundError"}

\* Lines 223-228: the except clauses are tried in order, and the class
\* expression of a clause is evaluated only when the clause is reached.
\* "propagate" is an exception that no clause matches.
ExceptClause(e) ==
    CASE IsInstance(e, "PermissionError") -> "PermissionError"
      [] IsInstance(e, "HTTPError") -> "HTTPError"
      [] "URLError" \notin RequestsExceptions -> "AttributeError"
      [] IsInstance(e, "URLError") -> "URLError"
      [] OTHER -> "propagate"

(***************************************************************************)
(* The script (lines 157-286)                                              *)
(***************************************************************************)

\* The bodies a GET of the wheel URL is answered with: a wheel, a file of
\* exactly the threshold size, a large page that is no archive, a short
\* archive.  What is written is readable afterwards.
Written(size, head) ==
    [stat |-> "ok", size |-> size, head |-> head, readable |-> TRUE]

Responses ==
    {Written(SizeThreshold * SizeDivisor + 1, ZipMagic),
     Written(SizeThreshold * SizeDivisor, ZipMagic),
     Written(SizeThreshold * SizeDivisor + 1, <<60, 60, 60, 60>>),
     Written(3, <<80, 75, 3>>)}

\* The header files the script is run on.
ScriptHeaders ==
    {MissingHeader,
     [ok |-> TRUE, data |-> <<"D">>],
     [ok |-> TRUE, data |-> <<"MAJ", "SP", "D", "NL", "MIN", "SP", "D">>],
     [ok |-> TRUE, data |-> <<"MAJ", "SP", "NL", "MIN", "SP">>]}

Envs ==
    [argv : {"ok", "usage", "help"}, force : BOOLEAN,
     arch : {"64bit", "32bit"}, platform : {"win32", "linux", "darwin"},
     aarch64 : BOOLEAN, sdk : BOOLEAN]

\* The script's variables before they are assigned (-1, "unset"); raised is
\* the exception that left the try block of lines 221-222, "" if none.
Loc0 ==
    [raised |-> "unset", valid |-> "unset", err_wheel |-> -1,
     err_cython |-> -1, err |-> -1, err_numpy |-> -1, err_pyzed |-> -1,
     pyzed_dir |-> "unset"]

NoCall == [fn |-> "none"]

Init ==
    /\ pc = "parse_args"
    /\ env \in Envs
    /\ dirname = "unset"
    /\ whl \in {NoFile("ENOENT"), Written(SizeThreshold * SizeDivisor + 1, ZipMagic)}
    /\ gets = <<>>
    /\ fswrites = <<>>
    /\ pips = <<>>
    /\ printed = {}
    /\ loc = Loc0
    /\ ZED_SDK_MAJOR = <<>>
    /\ ZED_SDK_MINOR = <<>>
    /\ status = -1
    /\ exc = ""
    /\ call = NoCall

\* sys.exit(code) after printing msgs.
Exit(code, msgs) ==
    /\ pc' = "exit"
    /\ status' = code
    /\ exc' = ""
    /\ printed' = printed \cup msgs

\* An exception e that nothing catches: the traceback, exit status 1.
Uncaught(e) ==
    /\ pc' = "exit"
    /\ status' = 1
    /\ exc' = e
    /\ printed' = printed

Goto(label, msgs) ==
    /\ pc' = label
    /\ status' = status
    /\ exc' = exc
    /\ printed' = printed \cup msgs

\* Line 160: parser.parse_args() leaves with status 2 on arguments it does
\* not know and with status 0 on --help.
ParseArgs ==
    /\ pc = "parse_args"
    /\ CASE env.argv = "usage" -> Exit(2, {"usage"})
         [] env.argv = "help" -> Exit(0, {"help"})
         [] OTHER -> Goto("arch", {})
    /\ UNCHANGED <<env, dirname, whl, gets, fswrites, pips, loc,
                   ZED_SDK_MAJOR, ZED_SDK_MINOR, call>>

\* Line 163.
ArchOkAny(arch) == arch \in {"64bit", "32bit"}

ArchOk(arch) == arch = "64bit"

\* Lines 162-165.
CheckArch ==
    /\ pc = "arch"
    /\ IF ArchOk(env.arch)
       THEN Goto("dirname", {})
       ELSE Exit(1, {"ERROR : Python 64bit must be used"})
    /\ UNCHANGED <<env, dirname, whl, gets, fswrites, pips, loc,
                   ZED_SDK_MAJOR, ZED_SDK_MINOR, call>>

\* Lines 168-174: the probe of the destination, the home directory if the
\* probe fails.
ChooseDirname ==
    /\ pc = "dirname"
    /\ \E d \in Dirs :
          LET r == can_write_to_dir(d) IN
          /\ dirname' = IF r.ret THEN "arg" ELSE "home"
          /\ fswrites' = IF r.wrote
                         THEN Append(fswrites, "temp_test_file.tmp")
                         ELSE fswrites
    /\ Goto("platform", {"-> Downloading to"})
    /\ UNCHANGED <<env, whl, gets, pips, loc, ZED_SDK_MAJOR, ZED_SDK_MINOR, call>>

\* Lines 176-200: the SDK is looked for and its version read.
DetectPlatform ==
    /\ pc = "platform"
    /\ IF env.platform \notin {"win32", "linux"}
       THEN /\ Exit(1, {"Unknown system.platform"})
            /\ UNCHANGED <<ZED_SDK_MAJOR, ZED_SDK_MINOR>>
       ELSE IF ~env.sdk
       THEN /\ Exit(1, {"Error: you must install the ZED SDK."})
            /\ UNCHANGED <<ZED_SDK_MAJOR, ZED_SDK_MINOR>>
       ELSE \E h1 \in ScriptHeaders, h2 \in ScriptHeaders :
              LET r == check_zed_sdk_version(h1, h2, ZED_SDK_MAJOR, ZED_SDK_MINOR)
              IN  /\ ZED_SDK_MAJOR' = r.major
                  /\ ZED_SDK_MINOR' = r.minor
                  /\ IF r.exc # "" THEN Uncaught(r.exc) ELSE Goto("download", {})
    /\ UNCHANGED <<env, dirname, whl, gets, fswrites, pips, loc, call>>

\* Lines 219-228: one GET, the body written to whl_file, and the except
\* clauses.  An exception of the GET leaves the file as it was.
Download ==
    /\ pc = "download"
    /\ gets' = Append(gets, "whl_file_URL")
    /\ \E g \in {"ok"} \cup GetExceptions, w \in {"ok"} \cup WriteExceptions,
          body \in Responses :
          LET raised == IF g # "ok" THEN g ELSE IF w # "ok" THEN w ELSE ""
              clause == ExceptClause(raised)
          IN  /\ whl' = IF raised = "" THEN body ELSE whl
              /\ fswrites' = IF raised = ""
                             THEN Append(fswrites, "whl_file")
                             ELSE fswrites
              /\ loc' = [loc EXCEPT !.raised = raised]
              /\ CASE raised = "" -> Goto("validate", {"-> Checking"})
                   [] clause = "PermissionError" ->
                        Exit(1, {"-> Checking", "Permission denied"})
                   [] clause = "HTTPError" ->
                        Goto("validate", {"-> Checking", "Error downloading whl file"})
                   [] clause = "AttributeError" -> Uncaught("AttributeError")
                   [] clause = "URLError" ->
                        Goto("certifi", {"-> Checking", "Invalid SSL certificate"})
                   [] OTHER -> Uncaught(raised)
    /\ UNCHANGED <<env, dirname, pips, ZED_SDK_MAJOR, ZED_SDK_MINOR, call>>

\* Lines 229-231, the handler of the URLError clause.  No run enters it
\* (ExceptClause never gives "URLError"), so it is no disjunct of Next.
ReinstallCertifi ==
    /\ pc = "certifi"
    /\ \E ok \in BOOLEAN :
          LET e == pip_install(ok) IN
          /\ pips' = Append(pips, PipCall("certifi", TRUE, TRUE, env.force, e))
          /\ IF e = 0 THEN Goto("retry", {}) ELSE Goto("validate", {})
    /\ UNCHANGED <<env, dirname, whl, gets, fswrites, loc,
                   ZED_SDK_MAJOR, ZED_SDK_MINOR, call>>

\* Lines 233-237, the retry inside that handler; as unreachable as it.
RetryDownload ==
    /\ pc = "retry"
    /\ gets' = Append(gets, "whl_file_URL")
    /\ \E g \in {"ok"} \cup GetExceptions, w \in {"ok"} \cup WriteExceptions,
          body \in Responses :
          LET raised == IF g # "ok" THEN g ELSE IF w # "ok" THEN w ELSE ""
          IN  /\ whl' = IF raised = "" THEN body ELSE whl
              /\ fswrites' = IF raised = ""
                             THEN Append(fswrites, "whl_file")
                             ELSE fswrites
              /\ IF raised = ""
                 THEN Goto("validate", {})
                 ELSE Goto("validate", {"Error downloading whl file"})
    /\ UNCHANGED <<env, dirname, pips, loc, ZED_SDK_MAJOR, ZED_SDK_MINOR, call>>

\* Lines 240-246 and 283-286.
Validate ==
    /\ pc = "validate"
    /\ LET r == check_valid_file(whl) IN
       CASE r.exc # "" ->
                /\ Uncaught(r.exc)
                /\ loc' = loc
         [] r.exc = "" /\ r.ret ->
                /\ Goto(IF env.aarch64 THEN "pip_wheel" ELSE "pip_numpy",
                        {"-> Found !", "-> Installing necessary dependencies"})
                /\ loc' = [loc EXCEPT !.valid = "True", !.err = 0]
         [] OTHER ->
                /\ Exit(1, {"Unsupported platforms, no pyzed file available"})
                /\ loc' = [loc EXCEPT !.valid = "False"]
    /\ UNCHANGED <<env, dirname, whl, gets, fswrites, pips,
                   ZED_SDK_MAJOR, ZED_SDK_MINOR, call>>

\* Line 248.
PipWheel ==
    /\ pc = "pip_wheel"
    /\ \E ok \in BOOLEAN :
          LET e == pip_install(ok) IN
          /\ pips' = Append(pips, PipCall("wheel", FALSE, FALSE, env.force, e))
          /\ loc' = [loc EXCEPT !.err_wheel = e]
    /\ Goto("pip_cython", {})
    /\ UNCHANGED <<env, dirname, whl, gets, fswrites,
                   ZED_SDK_MAJOR, ZED_SDK_MINOR, call>>

\* Line 250.
ErrOfLast(err_wheel, err_cython) == err_cython

ErrOf(err_wheel, err_cython) == err_wheel + err_cython

\* Lines 249-250.
PipCython ==
    /\ pc = "pip_cython"
    /\ \E ok \in BOOLEAN :
          LET e == pip_install(ok) IN
          /\ pips' = Append(pips, PipCall("cython", FALSE, FALSE, env.force, e))
          /\ loc' = [loc EXCEPT !.err_cython = e, !.err = ErrOf(loc.err_wheel, e)]
    /\ Goto("pip_numpy", {})
    /\ UNCHANGED <<env, dirname, whl, gets, fswrites,
                   ZED_SDK_MAJOR, ZED_SDK_MINOR, call>>

\* Line 253.
DepsFailed(err, err_numpy) == err # 0 \/ err_numpy # 0

\* Lines 251-255.
PipNumpy ==
    /\ pc = "pip_numpy"
    /\ \E ok \in BOOLEAN :
          LET e == pip_install(ok) IN
          /\ pips' = Append(pips, PipCall("numpy", FALSE, FALSE, env.force, e))
          /\ loc' = [loc EXCEPT !.err_numpy = e]
          /\ IF DepsFailed(loc.err, e)
             THEN Exit(1, {"ERROR : 'pip' failed to setup python dependencies packages"})
             ELSE Goto("pip_pyzed", {})
    /\ UNCHANGED <<env, dirname, whl, gets, fswrites,
                   ZED_SDK_MAJOR, ZED_SDK_MINOR, call>>

\* Lines 257-264 and, off Windows, 280-282.
PipPyzed ==
    /\ pc = "pip_pyzed"
    /\ \E ok \in BOOLEAN :
          LET e == pip_install(ok) IN
          /\ pips' = Append(pips, PipCall("whl_file", TRUE, FALSE, env.force, e))
          /\ loc' = [loc EXCEPT !.err_pyzed = e]
          /\ CASE e # 0 ->
                    Exit(1, {"ERROR : 'pip' failed to setup pyzed package"})
               [] e = 0 /\ env.platform = "win32" ->
                    Goto("opengl", {"Done", "Installing OpenGL dependencies"})
               [] OTHER ->
                    Exit(0, {"Done", "To install it later"})
    /\ UNCHANGED <<env, dirname, whl, gets, fswrites,
                   ZED_SDK_MAJOR, ZED_SDK_MINOR, call>>

\* Lines 79-97: install_win_dep(name, ...).  Its GET and its write are in
\* no try block, and what its pip_install returns is dropped.
install_win_dep(label, name, next) ==
    /\ pc = label
    /\ gets' = Append(gets, name)
    /\ \E g \in {"ok"} \cup GetExceptions, w \in {"ok"} \cup WriteExceptions,
          ok \in BOOLEAN :
          LET raised == IF g # "ok" THEN g ELSE IF w # "ok" THEN w ELSE "" IN
          IF raised # ""
          THEN /\ Uncaught(raised)
               /\ UNCHANGED <<fswrites, pips>>
          ELSE /\ fswrites' = Append(fswrites, name)
               /\ pips' = Append(pips, PipCall(name, FALSE, FALSE, env.force,
                                               pip_install(ok)))
               /\ Goto(next, {"-> Downloading " \o name})
    /\ UNCHANGED <<env, dirname, whl, loc, ZED_SDK_MAJOR, ZED_SDK_MINOR, call>>

\* Line 267.
InstallPyOpenGL == install_win_dep("opengl", "PyOpenGL", "opengl_accelerate")

\* Line 268.
InstallPyOpenGLAccelerate ==
    install_win_dep("opengl_accelerate", "PyOpenGL_accelerate", "pyzed_dir")

\* What "pip show pyzed" does: it fails, or prints no Location: line, or a
\* Location: that is no directory, or one that is.
PipShows == {"raises", "no_location", "location_not_dir", "location_dir"}

\* Lines 100-119.  Only an existing directory is returned; the except
\* clause returns "", and the end of the function is reached without a
\* return statement (None) when no line gave a directory.
get_pyzed_directory(show) ==
    CASE show = "raises" -> ""
      [] show = "location_dir" -> "dir/pyzed"
      [] OTHER -> "None"

\* Lines 271-273.
GetPyzedDirectory ==
    /\ pc = "pyzed_dir"
    /\ \E show \in PipShows :
          LET d == get_pyzed_directory(show) IN
          /\ loc' = [loc EXCEPT !.pyzed_dir = d]
          /\ IF d = "dir/pyzed"
             THEN Goto("dll_ai", {"Pyzed directory is"})
             ELSE Goto("dll_ai", {"ERROR : Unable to find pyzed installation folder"})
    /\ UNCHANGED <<env, dirname, whl, gets, fswrites, pips,
                   ZED_SDK_MAJOR, ZED_SDK_MINOR, call>>

\* sys.exit(0) of line 282 after the last file, else the next file.
AfterDll(last, msgs) == IF last THEN Exit(0, msgs) ELSE Goto("dll_zed", msgs)

\* Lines 276-279 for one file: pyzed_dir + file is a TypeError when
\* pyzed_dir is None, and shutil.copy may fail; neither is caught.
CopyDll(label, file, last) ==
    /\ pc = label
    /\ \E present \in BOOLEAN, copy_ok \in BOOLEAN :
          CASE ~present ->
                    /\ AfterDll(last, {"ERROR : 'pip' failed to copy dll file " \o file})
                    /\ fswrites' = fswrites
            [] present /\ loc.pyzed_dir = "None" ->
                    /\ Uncaught("TypeError")
                    /\ fswrites' = fswrites
            [] present /\ loc.pyzed_dir # "None" /\ ~copy_ok ->
                    /\ Uncaught("OSError")
                    /\ fswrites' = fswrites
            [] OTHER ->
                    /\ AfterDll(last, {})
                    /\ fswrites' = Append(fswrites, file)
    /\ UNCHANGED <<env, dirname, whl, gets, pips, loc,
                   ZED_SDK_MAJOR, ZED_SDK_MINOR, call>>

\* Lines 275-279, first file.
CopySlAi == CopyDll("dll_ai", "/sl_ai64.dll", FALSE)

\* Lines 275-279, second file, and line 282.
CopySlZed == CopyDll("dll_zed", "/sl_zed64.dll", TRUE)

Next ==
    \/ ParseArgs
    \/ CheckArch
    \/ ChooseDirname
    \/ DetectPlatform
    \/ Download
    \/ Validate
    \/ PipWheel
    \/ PipCython
    \/ PipNumpy
    \/ PipPyzed
    \/ InstallPyOpenGL
    \/ InstallPyOpenGLAccelerate
    \/ GetPyzedDirectory
    \/ CopySlAi
    \/ CopySlZed

Spec == Init /\ [][Next]_vars

(***************************************************************************)
(* The helpers called on their own                                         *)
(***************************************************************************)

ScriptIdle ==
    /\ pc = "idle"
    /\ env = [argv |-> "ok", force |-> FALSE, arch |-> "64bit",
              platform |-> "linux", aarch64 |-> FALSE, sdk |-> TRUE]
    /\ dirname = "unset"
    /\ whl = NoFile("ENOENT")
    /\ gets = <<>>
    /\ fswrites = <<>>
    /\ pips = <<>>
    /\ printed = {}
    /\ loc = Loc0
    /\ ZED_SDK_MAJOR = <<>>
    /\ ZED_SDK_MINOR = <<>>
    /\ status = -1
    /\ exc = ""

\* check_valid_file(path) on every path of Paths.
InitCheckValidFile ==
    /\ ScriptIdle
    /\ call \in {[fn |-> "check_valid_file", arg |-> f, done |-> FALSE,
                  res |-> [exc |-> "", ret |-> FALSE]] : f \in Paths}

CallCheckValidFile ==
    /\ call.fn = "check_valid_file"
    /\ ~call.done
    /\ call' = [call EXCEPT !.done = TRUE, !.res = check_valid_file(call.arg)]
    /\ UNCHANGED scriptVars

SpecCheckValidFile == InitCheckValidFile /\ [][CallCheckValidFile]_vars

\* can_write_to_dir(d) on every directory of Dirs.
InitCanWriteToDir ==
    /\ ScriptIdle
    /\ call \in {[fn |-> "can_write_to_dir", arg |-> d, done |-> FALSE,
                  res |-> [ret |-> FALSE, probe |-> d.probe_pre, wrote |-> FALSE]] :
                    d \in Dirs}

CallCanWriteToDir ==
    /\ call.fn = "can_write_to_dir"
    /\ ~call.done
    /\ call' = [call EXCEPT !.done = TRUE, !.res = can_write_to_dir(call.arg)]
    /\ UNCHANGED scriptVars

SpecCanWriteToDir == InitCanWriteToDir /\ [][CallCanWriteToDir]_vars

\* check_zed_sdk_version(p) on every pair of header files of Headers, the
\* globals being "" before the call (lines 14-15).
InitCheckZedSdkVersion ==
    /\ ScriptIdle
    /\ call \in {[fn |-> "check_zed_sdk_version", camera |-> h1, defines |-> h2,
                  done |-> FALSE,
                  res |-> [exc |-> "", major |-> <<>>, minor |-> <<>>,
                           tried |-> <<>>]] : h1 \in Headers, h2 \in Headers}

CallCheckZedSdkVersion ==
    /\ call.fn = "check_zed_sdk_version"
    /\ ~call.done
    /\ LET r == check_zed_sdk_version(call.camera, call.defines,
                                      ZED_SDK_MAJOR, ZED_SDK_MINOR)
       IN  /\ call' = [call EXCEPT !.done = TRUE, !.res = r]
           /\ ZED_SDK_MAJOR' = r.major
           /\ ZED_SDK_MINOR' = r.minor
    /\ UNCHANGED <<pc, env, dirname, whl, gets, fswrites, pips, printed, loc,
                   status, exc>>

SpecCheckZedSdkVersion == InitCheckZedSdkVersion /\ [][CallCheckZedSdkVersion]_vars

(***************************************************************************)
(* Properties                                                              *)
(***************************************************************************)

Exited == pc = "exit"

NoEffects == gets = <<>> /\ fswrites = <<>> /\ pips = <<>>

\* The calls of pip_install on a package so far.
PipsOf(package) == {i \in 1 .. Len(pips) : pips[i].package = package}

Failed(package) == \E i \in PipsOf(package) : pips[i].err # 0

Succeeded(package) == \E i \in PipsOf(package) : pips[i].err = 0

WhlGets == {i \in 1 .. Len(gets) : gets[i] = "whl_file_URL"}

\* The text has the marker followed by a space somewhere.
HasPattern(h, marker) ==
    /\ h.ok
    /\ \E i \in 1 .. Len(h.data) :
          /\ h.data[i] = marker
          /\ i < Len(h.data)
          /\ h.data[i + 1] = "SP"

HasBoth(h) == HasPattern(h, "MAJ") /\ HasPattern(h, "MIN")

C2_AsClaimed ==
    env.arch # "64bit" =>
        /\ NoEffects
        /\ Exited =>
              /\ status = 1
              /\ exc = ""
              /\ "ERROR : Python 64bit must be used" \in printed

\* C2, amended: on an architecture other than 64bit the script has no
\* effect on network, disk or pip; when the command line parses it exits
\* with status 1 after printing the architecture error, and otherwise
\* argparse has ended the run (status 2, or 0 for --help) before the
\* architecture is looked at.
C2_ArchCheck ==
    env.arch # "64bit" =>
        /\ NoEffects
        /\ (Exited /\ env.argv = "ok") =>
              /\ status = 1
              /\ exc = ""
              /\ "ERROR : Python 64bit must be used" \in printed
        /\ (Exited /\ env.argv # "ok") =>
              /\ status = (IF env.argv = "help" THEN 0 ELSE 2)
              /\ "ERROR : Python 64bit must be used" \notin printed

\* C2: a run on a 32bit interpreter ended at the architecture check.
C2_Witness ==
    /\ Exited
    /\ env.arch = "32bit"
    /\ env.argv = "ok"
    /\ status = 1
    /\ "ERROR : Python 64bit must be used" \in printed

\* C3, as claimed: when the first GET fails with an SSL error, certifi is
\* force-reinstalled with upgrade, the GET is made at most once more, and
\* the run goes on to check_valid_file.
C3_AsClaimed ==
    /\ Cardinality(WhlGets) <= 2
    /\ (Exited /\ loc.raised = "SSLError") =>
          /\ \E i \in PipsOf("certifi") :
                pips[i].force_install /\ pips[i].upgrade
          /\ Succeeded("certifi") => Cardinality(WhlGets) = 2
          /\ loc.valid # "unset"

\* C4, as claimed: once the archive is valid the dependency installers run
\* (wheel and cython first on aarch64, then numpy), then the pyzed
\* installer with force-reinstall, and if all of them return 0 the script
\* exits with status 0, on Windows too.
C4_AsClaimed ==
    (Exited /\ loc.valid = "True") =>
        /\ PipsOf("numpy") # {}
        /\ env.aarch64 => (PipsOf("wheel") = {1} /\ PipsOf("cython") = {2})
        /\ \A i \in PipsOf("whl_file") : pips[i].force_install
        /\ (\A i \in 1 .. Len(pips) : pips[i].err = 0) =>
              /\ PipsOf("whl_file") # {}
              /\ status = 0
              /\ exc = ""

\* C5: the pyzed installer runs only after check_valid_file returned True
\* and every dependency install returned 0; and a run in which the archive
\* is invalid or an install of a dependency or of pyzed returned nonzero
\* has exit status 1, never 0.
C5_InstallGuard ==
    /\ PipsOf("whl_file") # {} =>
          /\ loc.valid = "True"
          /\ Succeeded("numpy")
          /\ env.aarch64 => (Succeeded("wheel") /\ Succeeded("cython"))
          /\ ~Failed("wheel") /\ ~Failed("cython") /\ ~Failed("numpy")
    /\ (\/ loc.valid = "False"
        \/ Failed("wheel") \/ Failed("cython") \/ Failed("numpy")
        \/ Failed("whl_file")) =>
          /\ status # 0
          /\ Exited => status = 1

\* C5: wheel failed, cython and numpy succeeded, and the run ended with
\* status 1 without installing pyzed.
C5_Witness ==
    /\ Exited
    /\ status = 1
    /\ Failed("wheel")
    /\ Succeeded("cython")
    /\ Succeeded("numpy")
    /\ PipsOf("whl_file") = {}

\* C6: can_write_to_dir returns False for a path that does not exist, that
\* is no directory or that is not writable, and True only when the probe
\* file was written and then removed.
C6_CanWriteToDir ==
    (call.fn = "can_write_to_dir" /\ call.done) =>
        /\ ~call.arg.exists => ~call.res.ret
        /\ (call.arg.exists /\ ~call.arg.isdir) => ~call.res.ret
        /\ (call.arg.isdir /\ ~call.arg.access_w) => ~call.res.ret
        /\ call.res.ret =>
              /\ call.arg.open_ok /\ call.arg.write_ok /\ call.arg.remove_ok
              /\ call.res.wrote
              /\ ~call.res.probe
        /\ (~call.arg.open_ok \/ ~call.arg.write_ok \/ ~call.arg.remove_ok) =>
              ~call.res.ret

\* C6: a call returned True after writing and removing the probe file.
C6_Witness ==
    /\ call.fn = "can_write_to_dir"
    /\ call.done
    /\ call.res.ret
    /\ call.res.wrote
    /\ ~call.res.probe

\* C7, as claimed: a network exception of the download other than the SSL
\* one is caught, the run goes on to check_valid_file and ends through a
\* sys.exit of the script.
C7_AsClaimed ==
    (Exited /\ loc.raised \in {"ConnectionError", "Timeout", "HTTPError"}) =>
        /\ exc = ""
        /\ loc.valid # "unset"

\* C8, as claimed: sl/Camera.hpp is read first; sl_zed/defines.hpp is read
\* when and only when the first lacks the pattern; and when the first was
\* read and neither file holds the markers the call fails with
\* AttributeError.
C8_AsClaimed ==
    (call.fn = "check_zed_sdk_version" /\ call.done /\ call.camera.ok) =>
        /\ call.res.tried[1] = "sl/Camera.hpp"
        /\ ~HasBoth(call.camera) => Len(call.res.tried) = 2
        /\ Len(call.res.tried) = 2 => ~HasBoth(call.camera)
        /\ (~HasBoth(call.camera) /\ ~HasBoth(call.defines)) =>
              call.res.exc = "AttributeError"

\* C8, amended: sl/Camera.hpp is read first; sl_zed/defines.hpp is read
\* when and only when the first could be opened and lacks the pattern of
\* the major or of the minor version; when both files could be opened and
\* neither holds both patterns the call fails with AttributeError; and
\* when a file that is read cannot be opened the call fails with that
\* file's FileNotFoundError (a missing sl/Camera.hpp is not retried).
C8_CheckZedSdkVersion ==
    (call.fn = "check_zed_sdk_version" /\ call.done) =>
        /\ call.res.tried[1] = "sl/Camera.hpp"
        /\ Len(call.res.tried) = 2 <=> (call.camera.ok /\ ~HasBoth(call.camera))
        /\ Len(call.res.tried) = 2 => call.res.tried[2] = "sl_zed/defines.hpp"
        /\ (/\ call.camera.ok /\ ~HasBoth(call.camera)
            /\ call.defines.ok /\ ~HasBoth(call.defines)) =>
              call.res.exc = "AttributeError"
        /\ ~call.camera.ok => call.res.exc = "FileNotFoundError"
        /\ (call.camera.ok /\ ~HasBoth(call.camera) /\ ~call.defines.ok) =>
              call.res.exc = "FileNotFoundError"
        /\ call.res.exc = "" <=>
              \/ HasBoth(call.camera)
              \/ (call.camera.ok /\ HasBoth(call.defines))

\* C8: both files were read, neither held the patterns, and the call
\* failed with AttributeError.
C8_Witness ==
    /\ call.fn = "check_zed_sdk_version"
    /\ call.done
    /\ call.camera.ok /\ call.defines.ok
    /\ Len(call.res.tried) = 2
    /\ call.res.exc = "AttributeError"

\* C9, as claimed: when check_zed_sdk_version returns without raising,
\* ZED_SDK_MAJOR and ZED_SDK_MINOR are both non-empty.
C9_AsClaimed ==
    (call.fn = "check_zed_sdk_version" /\ call.done /\ call.res.exc = "") =>
        /\ ZED_SDK_MAJOR # <<>>
        /\ ZED_SDK_MINOR # <<>>

\* C10, as claimed: on Windows, whatever get_pyzed_directory gives (a
\* directory, nothing for want of a Location: line, or "" after a failed
\* pip show) and whichever DLL is there, the run ends with sys.exit(0).
\* Runs in which shutil.copy itself fails are left aside.
C10_AsClaimed ==
    (Exited /\ loc.pyzed_dir # "unset" /\ exc # "OSError") =>
        /\ status = 0
        /\ exc = ""

====
